---- MODULE Spec2Model ----
(***************************************************************************)
(* Model of EGL314proj.py: the DriveManager singleton, the AsyncUploader   *)
(* (upload queue, worker thread, upload_and_get_link) and the handlers of  *)
(* PhotoBoothPython that drive them.                                       *)
(*                                                                         *)
(* Two threads of control exist: "main" (the Tk/UI thread, which also runs *)
(* the constructors) and "worker" (AsyncUploader._upload_worker).  Every   *)
(* statement that touches shared state (DriveManager._drive,               *)
(* DriveManager._authenticated, upload_queue, the remote Drive service) is *)
(* a step of its own, so that the two threads interleave as they can in    *)
(* the program.  Calls are modelled with a per-thread program counter pc,  *)
(* a stack of return labels stk and a return-value register rv.            *)
(***************************************************************************)
EXTENDS Integers, Sequences, FiniteSets, TLC

\* ----------------------------------------------------------------- bounds
MaxPhotos == 2    \* number of captures (take_photo) in a run
MaxShares == 1    \* number of show_cutout / save_final_image operations
MaxStops  == 2    \* number of stop() calls

\* ------------------------------------------------------------- constants
Threads == {"main", "worker"}

\* Python's None where the other values are integers (handles, ids, URLs).
None == -1

\* A file path: photo_<n><suffix>.png, in dir.  NonePath is the None that
\* stop() puts on the queue (the poison pill).
Path(dir, n, suffix) == [dir |-> dir, n |-> n, suffix |-> suffix]
NonePath == Path("", None, "None")

\* The URL the service assigns to an uploaded file (file['alternateLink']).
ShareUrl == 1

VARIABLES
  \* DriveManager (class attributes, shared by both threads)
  _drive,            \* None or the id of the GoogleDrive object held
  _authenticated,    \* BOOLEAN
  handles,           \* number of GoogleDrive objects built so far
  expired,           \* the access token behind _drive has expired
  last_init,         \* how the _initialize_drive that ended last ended
  \* AsyncUploader
  upload_queue,      \* queue.Queue: sequence of paths and NonePath
  upload_thread,     \* None, or 1 once a Thread object has been created
  live_workers,      \* threads started on _upload_worker that have not ended
  \* the remote Drive service
  folders,           \* number of folders titled 'PhotoBooth' on the service
  \* threads
  pc,                \* pc[t]: the statement thread t executes next
  stk,               \* stk[t]: return labels of the calls in progress
  rv,                \* rv[t]: value returned by the call that ended last
  cred,              \* cred[t]: gauth.credentials in _initialize_drive
  file_path,         \* file_path[t]: argument of the upload in progress
  parent,            \* parent[t]: id put in file_metadata['parents']
  fault,             \* fault[t]: first step of the upload that went wrong
  calls,             \* calls[t]: remote calls issued by the upload of t
  sdk_fault,         \* sdk_fault[t]: SDK calls that raised in the current
                     \*   _initialize_drive of t
  \* PhotoBoothPython
  img_counter, save_session_id, last_captured, last_no_bg, last_composited,
  last_raw, preview_controls, qr_frame, qr_url,
  bg_thumb_frame,    \* None, or the capture whose cutout the buttons of the
                     \*   background selector hold (no_bg_img of on_bg_click)
  thumb_buttons,     \* the background selector has thumbnail buttons
  \* history
  shares,            \* number of upload_and_get_link calls made
  accepted,          \* paths queue_upload has put on the queue, in order
  started,           \* arguments of the worker's _upload_file calls
  task_done,         \* number of upload_queue.task_done() calls
  stop_calls,        \* number of stop() calls that have put the pill
  stops_returned,    \* number of stop() calls that have returned
  accepted_at_stop   \* Len(accepted) when the first pill was put, or None

dmVars   == <<_drive, _authenticated, handles, expired, last_init>>
thrVars  == <<pc, stk, rv, cred, file_path, parent, fault, calls, sdk_fault>>
uiVars   == <<img_counter, save_session_id, last_captured, last_no_bg,
              last_composited, last_raw, preview_controls, qr_frame, qr_url,
              bg_thumb_frame, thumb_buttons>>
histVars == <<shares, accepted, started, task_done, stop_calls,
              stops_returned, accepted_at_stop>>
vars == <<dmVars, upload_queue, upload_thread, live_workers, folders, thrVars, uiVars,
          histVars>>

\* ---------------------------------------------------------------- helpers
Goto(t, l) == pc' = [pc EXCEPT ![t] = l]

\* t calls the procedure whose first statement is entry; it resumes at back.
Call(t, entry, back) ==
  /\ pc' = [pc EXCEPT ![t] = entry]
  /\ stk' = [stk EXCEPT ![t] = <<back>> \o stk[t]]

\* t returns v from the procedure it is in.
Return(t, v) ==
  /\ pc' = [pc EXCEPT ![t] = Head(stk[t])]
  /\ stk' = [stk EXCEPT ![t] = Tail(stk[t])]
  /\ rv' = [rv EXCEPT ![t] = v]

InitLabels == {"in_load", "in_auth", "in_save", "in_build", "in_setauth",
               "in_fail65", "in_fail66"}
InInit(t) == pc[t] \in InitLabels

\* ------------------------------------------------------------ DriveManager
\* is_connected that ignores the session state.
is_connected_always(auth, drive) == TRUE

\* DriveManager.is_connected
is_connected(auth, drive) == auth /\ drive # None

\* DriveManager.__init__, run by AsyncUploader.__init__ on the main thread:
\* `if not self._authenticated: self._initialize_drive()`.
dm_init ==
  /\ pc["main"] = "dm_init"
  /\ IF ~_authenticated
       THEN Call("main", "in_load", "au_start")
       ELSE Goto("main", "au_start") /\ UNCHANGED stk
  /\ UNCHANGED <<dmVars, upload_queue, upload_thread, live_workers, folders, rv, cred,
                 file_path, parent, fault, calls, sdk_fault, uiVars, histVars>>

\* _initialize_drive, lines 33-43: GoogleAuth() and the inner try around
\* LoadCredentialsFile.  The inner except swallows a failure of the load
\* and the flow goes on with whatever gauth.credentials is (None when the
\* file is missing or the load raised).  A failure of GoogleAuth() itself
\* goes to the outer except.
in_load(t) ==
  /\ pc[t] = "in_load"
  /\ \E outcome \in {"gauth_raises", "load_raises", "no_file", "expired", "valid"} :
       IF outcome = "gauth_raises"
         THEN /\ Goto(t, "in_fail65")
              /\ sdk_fault' = [sdk_fault EXCEPT ![t] = {"gauth"}]
              /\ UNCHANGED cred
         ELSE /\ Goto(t, "in_auth")
              /\ sdk_fault' = [sdk_fault EXCEPT ![t] =
                                 IF outcome = "load_raises" THEN {"load"} ELSE {}]
              /\ cred' = [cred EXCEPT ![t] =
                            IF outcome \in {"load_raises", "no_file"}
                              THEN "none" ELSE outcome]
  /\ UNCHANGED <<dmVars, upload_queue, upload_thread, live_workers, folders, stk, rv,
                 file_path, parent, fault, calls, uiVars, histVars>>

\* The SDK call lines 47-54 choose from gauth.credentials.
AuthCall(c) == CASE c = "none"    -> "LocalWebserverAuth"
                 [] c = "expired" -> "Refresh"
                 [] OTHER         -> "Authorize"

\* _initialize_drive, lines 47-54: one of LocalWebserverAuth, Refresh,
\* Authorize; it returns or raises.
in_auth(t) ==
  /\ pc[t] = "in_auth"
  /\ \E ok \in BOOLEAN :
       IF ok THEN Goto(t, "in_save") /\ UNCHANGED sdk_fault
             ELSE /\ Goto(t, "in_fail65")
                  /\ sdk_fault' = [sdk_fault EXCEPT ![t] = @ \cup {AuthCall(cred[t])}]
  /\ cred' = [cred EXCEPT ![t] = "unset"]
  /\ UNCHANGED <<dmVars, upload_queue, upload_thread, live_workers, folders, stk, rv,
                 file_path, parent, fault, calls, uiVars, histVars>>

\* SaveCredentialsFile whose failure is swallowed like that of the load.
in_save_swallowed(t) ==
  /\ pc[t] = "in_save"
  /\ \E ok \in BOOLEAN :
       /\ Goto(t, "in_build")
       /\ sdk_fault' = [sdk_fault EXCEPT ![t] =
                          IF ok THEN @ ELSE @ \cup {"SaveCredentialsFile"}]
  /\ UNCHANGED <<dmVars, upload_queue, upload_thread, live_workers, folders, stk, rv, cred,
                 file_path, parent, fault, calls, uiVars, histVars>>

\* _initialize_drive, line 57: gauth.SaveCredentialsFile returns or raises.
in_save(t) ==
  /\ pc[t] = "in_save"
  /\ \E ok \in BOOLEAN :
       IF ok THEN Goto(t, "in_build") /\ UNCHANGED sdk_fault
             ELSE /\ Goto(t, "in_fail65")
                  /\ sdk_fault' = [sdk_fault EXCEPT ![t] = @ \cup {"SaveCredentialsFile"}]
  /\ UNCHANGED <<dmVars, upload_queue, upload_thread, live_workers, folders, stk, rv, cred,
                 file_path, parent, fault, calls, uiVars, histVars>>

\* _initialize_drive, line 59: self._drive = GoogleDrive(gauth), or raises.
\* The handle is built on the credentials just authorized or refreshed.
in_build(t) ==
  /\ pc[t] = "in_build"
  /\ \E ok \in BOOLEAN :
       IF ok THEN /\ Goto(t, "in_setauth")
                  /\ handles' = handles + 1
                  /\ _drive' = handles + 1
                  /\ expired' = FALSE
                  /\ UNCHANGED sdk_fault
             ELSE /\ Goto(t, "in_fail65")
                  /\ sdk_fault' = [sdk_fault EXCEPT ![t] = @ \cup {"GoogleDrive"}]
                  /\ UNCHANGED <<_drive, handles, expired>>
  /\ UNCHANGED <<_authenticated, last_init, upload_queue, upload_thread, live_workers, folders, stk, rv,
                 cred, file_path, parent, fault, calls, uiVars, histVars>>

\* What line 60 stores in _authenticated.
AuthenticatedAfterSuccess == TRUE

\* _initialize_drive, line 60: self._authenticated = True; the method returns.
in_setauth(t) ==
  /\ pc[t] = "in_setauth"
  /\ _authenticated' = AuthenticatedAfterSuccess
  /\ last_init' = "ok"
  /\ Return(t, None)
  /\ UNCHANGED <<_drive, handles, expired, upload_queue, upload_thread, live_workers, folders, cred,
                 file_path, parent, fault, calls, sdk_fault, uiVars, histVars>>

\* _initialize_drive, line 65 (outer except): self._drive = None.
in_fail65(t) ==
  /\ pc[t] = "in_fail65"
  /\ _drive' = None
  /\ Goto(t, "in_fail66")
  /\ UNCHANGED <<_authenticated, handles, expired, last_init, upload_queue,
                 upload_thread, live_workers, folders, stk, rv, cred, file_path, parent, fault, calls, sdk_fault,
                 uiVars, histVars>>

\* An except branch that marks the session authenticated.
AuthenticatedAfterFailureWrong == TRUE

\* What line 66 stores in _authenticated.
AuthenticatedAfterFailure == FALSE

\* _initialize_drive, line 66: self._authenticated = False; the method
\* returns normally (the exception has been handled).
in_fail66(t) ==
  /\ pc[t] = "in_fail66"
  /\ _authenticated' = AuthenticatedAfterFailure
  /\ last_init' = "failed"
  /\ Return(t, None)
  /\ UNCHANGED <<_drive, handles, expired, upload_queue, upload_thread, live_workers, folders, cred,
                 file_path, parent, fault, calls, sdk_fault, uiVars, histVars>>

_initialize_drive(t) ==
  \/ in_load(t) \/ in_auth(t) \/ in_save(t) \/ in_build(t)
  \/ in_setauth(t) \/ in_fail65(t) \/ in_fail66(t)

\* get_drive that initializes on every call.
NeedsInitAlways(auth, drive) == TRUE

\* The test of get_drive, line 70: `not self._authenticated or
\* self._drive is None`, on the values read.
NeedsInit(auth, drive) == ~auth \/ drive = None

\* get_drive, line 70, first operand: reads _authenticated.
gd_auth(t) ==
  /\ pc[t] = "gd_auth"
  /\ IF NeedsInit(_authenticated, 0)
       THEN Call(t, "in_load", "gd_ret")
       ELSE Goto(t, "gd_drive") /\ UNCHANGED stk
  /\ UNCHANGED <<dmVars, upload_queue, upload_thread, live_workers, folders, rv, cred,
                 file_path, parent, fault, calls, sdk_fault, uiVars, histVars>>

\* get_drive, line 70, second operand: reads _drive.
gd_drive(t) ==
  /\ pc[t] = "gd_drive"
  /\ IF NeedsInit(TRUE, _drive)
       THEN Call(t, "in_load", "gd_ret")
       ELSE Goto(t, "gd_ret") /\ UNCHANGED stk
  /\ UNCHANGED <<dmVars, upload_queue, upload_thread, live_workers, folders, rv, cred,
                 file_path, parent, fault, calls, sdk_fault, uiVars, histVars>>

\* get_drive, line 72: return self._drive.
gd_ret(t) ==
  /\ pc[t] = "gd_ret"
  /\ Return(t, _drive)
  /\ UNCHANGED <<dmVars, upload_queue, upload_thread, live_workers, folders, cred,
                 file_path, parent, fault, calls, sdk_fault, uiVars, histVars>>

get_drive(t) == gd_auth(t) \/ gd_drive(t) \/ gd_ret(t)

\* The environment: time passes and the access token of the credentials
\* behind the handle held in _drive expires.  Nothing in DriveManager
\* changes (lines 68-76 never look at the expiry of a handle they hold).
token_expires ==
  /\ _drive # None
  /\ ~expired
  /\ expired' = TRUE
  /\ UNCHANGED <<_drive, _authenticated, handles, last_init, upload_queue,
                 upload_thread, live_workers, folders, thrVars, uiVars, histVars>>

\* ------------------------------------------------------------ AsyncUploader
\* threading.Thread.is_alive() of the worker thread.
WorkerAlive == pc["worker"] \notin {"unstarted", "exited"}

\* A start_upload_worker that creates a thread whatever it finds.
ShouldStartWorkerAlways(thread, alive) == TRUE

\* start_upload_worker, line 88: the test that lets a thread be created.
ShouldStartWorker(thread, alive) == thread = None \/ ~alive

\* AsyncUploader.__init__ line 84 -> start_upload_worker: a thread is created
\* and started only if there is none or the previous one is not alive.
\* (The record of the SDK calls that raised during construction ends here.)
au_start ==
  /\ pc["main"] = "au_start"
  /\ IF ShouldStartWorker(upload_thread, WorkerAlive)
       THEN /\ upload_thread' = 1
            /\ live_workers' = live_workers + 1
            /\ pc' = [pc EXCEPT !["main"] = "idle", !["worker"] = "w_get"]
       ELSE /\ Goto("main", "idle")
            /\ UNCHANGED <<upload_thread, live_workers>>
  /\ sdk_fault' = [sdk_fault EXCEPT !["main"] = {}]
  /\ UNCHANGED <<dmVars, upload_queue, folders, stk, rv, cred, file_path,
                 parent, fault, calls, uiVars, histVars>>

\* start_upload_worker, lines 86-90, called again on the uploader (from the
\* main thread, between two handlers): a thread is created and started only
\* if there is none or the previous one is not alive.
start_upload_worker ==
  /\ pc["main"] = "idle"
  /\ IF ShouldStartWorker(upload_thread, WorkerAlive)
       THEN /\ upload_thread' = 1
            /\ live_workers' = live_workers + 1
            /\ pc' = [pc EXCEPT !["worker"] = "w_get"]
       ELSE UNCHANGED <<upload_thread, live_workers, pc>>
  /\ UNCHANGED <<dmVars, upload_queue, folders, stk, rv, cred, file_path,
                 parent, fault, calls, sdk_fault, uiVars, histVars>>

\* The first fault of an upload is the one recorded.
FirstFault(t, f) == [fault EXCEPT ![t] = IF @ = "none" THEN f ELSE @]

\* _get_or_create_folder, line 177: drive = self.drive_manager.get_drive().
gf_begin(t) ==
  /\ pc[t] = "gf_begin"
  /\ Call(t, "gd_auth", "gf_got")
  /\ UNCHANGED <<dmVars, upload_queue, upload_thread, live_workers, folders, rv, cred,
                 file_path, parent, fault, calls, sdk_fault, uiVars, histVars>>

\* _get_or_create_folder, lines 178-179: `if not drive: return None`.
\* (The record of the SDK calls that raised under get_drive ends here.)
gf_got(t) ==
  /\ pc[t] = "gf_got"
  /\ IF rv[t] = None
       THEN Return(t, None) /\ fault' = FirstFault(t, "folder")
       ELSE Goto(t, "gf_list") /\ UNCHANGED <<stk, rv, fault>>
  /\ sdk_fault' = [sdk_fault EXCEPT ![t] = {}]
  /\ UNCHANGED <<dmVars, upload_queue, upload_thread, live_workers, folders, cred,
                 file_path, parent, calls, uiVars, histVars>>

\* A folder resolution that creates a folder whatever the list answers.
UsesExistingNever(n) == FALSE

\* What _get_or_create_folder does with the answer of ListFile (lines
\* 186-187): TRUE when it returns the id of the first folder found, FALSE
\* when it goes on to create one.
UsesExisting(n) == n > 0

\* _get_or_create_folder, lines 182-187: the remote ListFile(...).GetList().
\* It raises (line 197: return None) or answers with the folders that exist
\* at this moment; the id of the first one is 1.
gf_list(t) ==
  /\ pc[t] = "gf_list"
  /\ calls' = [calls EXCEPT ![t] = @ \cup {"list"}]
  /\ \E ok \in BOOLEAN :
       IF ~ok THEN Return(t, None) /\ fault' = FirstFault(t, "folder")
       ELSE IF UsesExisting(folders)
              THEN Return(t, 1) /\ UNCHANGED fault
              ELSE Goto(t, "gf_create") /\ UNCHANGED <<stk, rv, fault>>
  /\ UNCHANGED <<dmVars, upload_queue, upload_thread, live_workers, folders, cred,
                 file_path, parent, sdk_fault, uiVars, histVars>>

\* _get_or_create_folder, lines 190-195: the remote folder.Upload().  It
\* raises (line 197: return None) or creates one more folder titled
\* 'PhotoBooth' and the method returns its id.
gf_create(t) ==
  /\ pc[t] = "gf_create"
  /\ calls' = [calls EXCEPT ![t] = @ \cup {"mkdir"}]
  /\ \E ok \in BOOLEAN :
       IF ok THEN /\ folders' = folders + 1
                  /\ Return(t, folders + 1)
                  /\ UNCHANGED fault
             ELSE /\ Return(t, None)
                  /\ fault' = FirstFault(t, "folder")
                  /\ UNCHANGED folders
  /\ UNCHANGED <<dmVars, upload_queue, upload_thread, live_workers, cred, file_path,
                 parent, sdk_fault, uiVars, histVars>>

_get_or_create_folder(t) ==
  gf_begin(t) \/ gf_got(t) \/ gf_list(t) \/ gf_create(t)

\* upload_and_get_link, line 109, and _upload_file, line 146:
\* drive = self.drive_manager.get_drive().  u is "ul" or "uf".
up_begin(t, u) ==
  /\ pc[t] = u \o "_begin"
  /\ Call(t, "gd_auth", u \o "_got")
  /\ fault' = [fault EXCEPT ![t] = "none"]
  /\ calls' = [calls EXCEPT ![t] = {}]
  /\ parent' = [parent EXCEPT ![t] = None]
  /\ UNCHANGED <<dmVars, upload_queue, upload_thread, live_workers, folders, rv, cred,
                 file_path, sdk_fault, uiVars, histVars>>

\* Lines 110-112 and 147-149: `if not drive: return None` (False in
\* _upload_file; fail is that value).  (The record of the SDK calls that
\* raised under get_drive ends here.)
up_got(t, u, fail) ==
  /\ pc[t] = u \o "_got"
  /\ IF rv[t] = None
       THEN Return(t, fail) /\ fault' = FirstFault(t, "handle")
       ELSE Goto(t, u \o "_exists") /\ UNCHANGED <<stk, rv, fault>>
  /\ sdk_fault' = [sdk_fault EXCEPT ![t] = {}]
  /\ UNCHANGED <<dmVars, upload_queue, upload_thread, live_workers, folders, cred,
                 file_path, parent, calls, uiVars, histVars>>

\* An upload that does not look at the answer of os.path.exists.
IgnoresMissingFile(exists) == FALSE

\* The test of lines 114 and 152 on the answer of os.path.exists.
AbortsOnMissingFile(exists) == ~exists

\* Lines 114-116 and 152-154: `if not os.path.exists(file_path): return
\* None`; otherwise line 120/159 calls _get_or_create_folder.
up_exists(t, u, fail) ==
  /\ pc[t] = u \o "_exists"
  /\ \E exists \in BOOLEAN :
       /\ fault' = IF exists THEN fault ELSE FirstFault(t, "file")
       /\ IF AbortsOnMissingFile(exists)
            THEN Return(t, fail)
            ELSE Call(t, "gf_begin", u \o "_upload") /\ UNCHANGED rv
  /\ UNCHANGED <<dmVars, upload_queue, upload_thread, live_workers, folders, cred,
                 file_path, parent, calls, sdk_fault, uiVars, histVars>>

\* Lines 118-125 and 157-165: file_metadata takes the value returned by
\* _get_or_create_folder as the parent id, whatever it is; then CreateFile,
\* SetContentFile and the remote file.Upload(), which returns or raises.
\* _upload_file returns True after it (done = "return"), upload_and_get_link
\* goes on to the permission (done = "ul_perm").
up_upload(t, u, fail, done) ==
  /\ pc[t] = u \o "_upload"
  /\ parent' = [parent EXCEPT ![t] = rv[t]]
  /\ calls' = [calls EXCEPT ![t] = @ \cup {"upload"}]
  /\ \E ok \in BOOLEAN :
       IF ok THEN /\ IF done = "return" THEN Return(t, 1)
                       ELSE Goto(t, done) /\ UNCHANGED <<stk, rv>>
                  /\ UNCHANGED fault
             ELSE /\ Return(t, fail)
                  /\ fault' = FirstFault(t, "upload")
  /\ UNCHANGED <<dmVars, upload_queue, upload_thread, live_workers, folders, cred,
                 file_path, sdk_fault, uiVars, histVars>>

\* An InsertPermission whose failure is ignored.
ul_perm_swallowed(t) ==
  /\ pc[t] = "ul_perm"
  /\ calls' = [calls EXCEPT ![t] = @ \cup {"perm"}]
  /\ \E ok \in BOOLEAN :
       /\ Goto(t, "ul_link")
       /\ fault' = IF ok THEN fault ELSE FirstFault(t, "perm")
  /\ UNCHANGED <<dmVars, upload_queue, upload_thread, live_workers, folders, stk, rv, cred,
                 file_path, parent, sdk_fault, uiVars, histVars>>

\* upload_and_get_link, lines 128-132: the remote file.InsertPermission.
ul_perm(t) ==
  /\ pc[t] = "ul_perm"
  /\ calls' = [calls EXCEPT ![t] = @ \cup {"perm"}]
  /\ \E ok \in BOOLEAN :
       IF ok THEN Goto(t, "ul_link") /\ UNCHANGED <<stk, rv, fault>>
             ELSE Return(t, None) /\ fault' = FirstFault(t, "perm")
  /\ UNCHANGED <<dmVars, upload_queue, upload_thread, live_workers, folders, cred,
                 file_path, parent, sdk_fault, uiVars, histVars>>

\* upload_and_get_link, lines 134-136: share_url = file['alternateLink'],
\* which raises if the service gave none; return share_url.
ul_link(t) ==
  /\ pc[t] = "ul_link"
  /\ \E ok \in BOOLEAN :
       IF ok THEN Return(t, ShareUrl) /\ UNCHANGED fault
             ELSE Return(t, None) /\ fault' = FirstFault(t, "link")
  /\ UNCHANGED <<dmVars, upload_queue, upload_thread, live_workers, folders, cred,
                 file_path, parent, calls, sdk_fault, uiVars, histVars>>

\* upload_and_get_link: runs on the thread of its caller, the main thread.
upload_and_get_link ==
  \/ up_begin("main", "ul") \/ up_got("main", "ul", None)
  \/ up_exists("main", "ul", None)
  \/ up_upload("main", "ul", None, "ul_perm")
  \/ ul_perm("main") \/ ul_link("main")

\* _upload_file: runs on the worker thread; returns False (0) or True (1).
_upload_file ==
  \/ up_begin("worker", "uf") \/ up_got("worker", "uf", 0)
  \/ up_exists("worker", "uf", 0)
  \/ up_upload("worker", "uf", 0, "return")

\* A get that hands out the newest item.
QueueGetNewest(q) == q[Len(q)]

\* A get that leaves the item on the queue.
QueueRestKeep(q) == q

\* queue.Queue.get on a non-empty queue: the item the worker receives.
QueueGet(q) == Head(q)
\* ... and what is left on the queue.
QueueRest(q) == Tail(q)

\* A worker that does not recognise the pill.
NeverPoisonPill(item) == FALSE

\* _upload_worker, line 97: `if file_path is None`.
IsPoisonPill(item) == item = NonePath

\* _upload_worker, lines 96-99: upload_queue.get(timeout=1).  On an empty
\* queue the get raises queue.Empty after the timeout and the loop tries
\* again, which changes nothing; so the step is taken when an item is there.
\* The pill ends the loop; a path is handed to _upload_file.
w_get ==
  /\ pc["worker"] = "w_get"
  /\ upload_queue # <<>>
  /\ upload_queue' = QueueRest(upload_queue)
  /\ LET item == QueueGet(upload_queue) IN
       IF IsPoisonPill(item)
         THEN /\ Goto("worker", "exited")
              /\ live_workers' = live_workers - 1
              /\ UNCHANGED <<stk, file_path, started>>
         ELSE /\ Call("worker", "uf_begin", "w_done")
              /\ file_path' = [file_path EXCEPT !["worker"] = item]
              /\ started' = Append(started, item)
              /\ UNCHANGED live_workers
  /\ UNCHANGED <<dmVars, upload_thread, folders, rv, cred, parent, fault,
                 calls, sdk_fault, uiVars, shares, accepted, task_done,
                 stop_calls, stops_returned, accepted_at_stop>>

\* A worker that puts the path back on the queue when its upload failed.
w_done_requeue ==
  /\ pc["worker"] = "w_done"
  /\ task_done' = task_done + 1
  /\ Goto("worker", "w_get")
  /\ upload_queue' = IF rv["worker"] = 0
                       THEN Append(upload_queue, file_path["worker"])
                       ELSE upload_queue
  /\ file_path' = [file_path EXCEPT !["worker"] = NonePath]
  /\ parent' = [parent EXCEPT !["worker"] = None]
  /\ fault' = [fault EXCEPT !["worker"] = "none"]
  /\ calls' = [calls EXCEPT !["worker"] = {}]
  /\ rv' = [rv EXCEPT !["worker"] = None]
  /\ UNCHANGED <<dmVars, upload_thread, live_workers, folders, stk, cred,
                 sdk_fault, uiVars, shares, accepted, started, stop_calls,
                 stops_returned, accepted_at_stop>>

\* _upload_worker, line 100: upload_queue.task_done(); back to the get.
w_done ==
  /\ pc["worker"] = "w_done"
  /\ task_done' = task_done + 1
  /\ Goto("worker", "w_get")
  /\ file_path' = [file_path EXCEPT !["worker"] = NonePath]
  /\ parent' = [parent EXCEPT !["worker"] = None]
  /\ fault' = [fault EXCEPT !["worker"] = "none"]
  /\ calls' = [calls EXCEPT !["worker"] = {}]
  /\ rv' = [rv EXCEPT !["worker"] = None]
  /\ UNCHANGED <<dmVars, upload_queue, upload_thread, live_workers, folders, stk, cred,
                 sdk_fault, uiVars, shares, accepted, started, stop_calls,
                 stops_returned, accepted_at_stop>>

_upload_worker == w_get \/ w_done

\* queue_upload, line 207: self.upload_queue.put(file_path).
QueuePut(q, item) == Append(q, item)

\* queue_upload, line 203, first operand of is_connected(): the main thread
\* reads _authenticated; the path is rejected if it is false.
qu_auth ==
  /\ pc["main"] = "qu_auth"
  /\ IF is_connected(_authenticated, 0)
       THEN Goto("main", "qu_drive")
       ELSE Goto("main", "tp_finish")
  /\ UNCHANGED <<dmVars, upload_queue, upload_thread, live_workers, folders, stk, rv, cred,
                 file_path, parent, fault, calls, sdk_fault, uiVars, histVars>>

\* queue_upload, line 203, second operand of is_connected(): the main
\* thread reads _drive; lines 204-207: reject, or put the path on the queue.
qu_drive ==
  /\ pc["main"] = "qu_drive"
  /\ IF is_connected(TRUE, _drive)
       THEN /\ upload_queue' = QueuePut(upload_queue, file_path["main"])
            /\ accepted' = Append(accepted, file_path["main"])
       ELSE UNCHANGED <<upload_queue, accepted>>
  /\ Goto("main", "tp_finish")
  /\ UNCHANGED <<dmVars, upload_thread, live_workers, folders, stk, rv, cred, file_path,
                 parent, fault, calls, sdk_fault, uiVars, shares, started,
                 task_done, stop_calls, stops_returned, accepted_at_stop>>

queue_upload == qu_auth \/ qu_drive

\* stop, line 212: self.upload_queue.put(None); line 213: join only a
\* thread that is alive.
st_put ==
  /\ pc["main"] = "idle"
  /\ stop_calls < MaxStops
  /\ upload_queue' = QueuePut(upload_queue, NonePath)
  /\ stop_calls' = stop_calls + 1
  /\ accepted_at_stop' = IF accepted_at_stop = None THEN Len(accepted)
                         ELSE accepted_at_stop
  /\ IF upload_thread # None /\ WorkerAlive
       THEN Goto("main", "st_join") /\ UNCHANGED stops_returned
       ELSE UNCHANGED pc /\ stops_returned' = stops_returned + 1
  /\ UNCHANGED <<dmVars, upload_thread, live_workers, folders, stk, rv, cred, file_path,
                 parent, fault, calls, sdk_fault, uiVars, shares, accepted,
                 started, task_done>>

\* stop, line 214: self.upload_thread.join(timeout=5) returns when the
\* worker has exited, or after five seconds whatever the worker is doing
\* (an upload has no time limit); stop() then returns.
st_join ==
  /\ pc["main"] = "st_join"
  /\ \E timeout \in BOOLEAN : timeout \/ ~WorkerAlive
  /\ stops_returned' = stops_returned + 1
  /\ Goto("main", "idle")
  /\ UNCHANGED <<dmVars, upload_queue, upload_thread, live_workers, folders, stk, rv, cred,
                 file_path, parent, fault, calls, sdk_fault, uiVars, shares,
                 accepted, started, task_done, stop_calls, accepted_at_stop>>

stop == st_put \/ st_join

\* --------------------------------------------------------- PhotoBoothPython
\* take_photo, lines 338-349, when cap.read() gives a frame (without one the
\* handler does nothing): the frame is written to photo_<img_counter>.png,
\* the counter and save_session_id move on, and queue_upload(fname) is
\* called.
take_photo ==
  /\ pc["main"] = "idle"
  /\ img_counter < MaxPhotos
  /\ img_counter' = img_counter + 1
  /\ save_session_id' = img_counter + 1
  /\ last_captured' = img_counter
  /\ file_path' = [file_path EXCEPT !["main"] = Path("", img_counter, "")]
  /\ Goto("main", "qu_auth")
  /\ UNCHANGED <<dmVars, upload_queue, upload_thread, live_workers, folders, stk, rv, cred,
                 parent, fault, calls, sdk_fault, last_no_bg, last_composited,
                 last_raw, preview_controls, qr_frame, qr_url, bg_thumb_frame, thumb_buttons, histVars>>

\* take_photo, lines 351-357: Image.open(fname) (an exception here leaves
\* the handler); then the images of the previous capture are forgotten and
\* the preview controls are shown.
tp_finish ==
  /\ pc["main"] = "tp_finish"
  /\ Goto("main", "idle")
  /\ file_path' = [file_path EXCEPT !["main"] = NonePath]
  /\ \E opened \in BOOLEAN :
       IF opened
         THEN /\ last_no_bg' = None
              /\ last_composited' = None
              /\ last_raw' = last_captured
              /\ preview_controls' = TRUE
         ELSE UNCHANGED <<last_no_bg, last_composited, last_raw, preview_controls>>
  /\ UNCHANGED <<dmVars, upload_queue, upload_thread, live_workers, folders, stk, rv, cred,
                 parent, fault, calls, sdk_fault, img_counter, save_session_id,
                 last_captured, qr_frame, qr_url, bg_thumb_frame, thumb_buttons, histVars>>

\* show_cutout(self.last_captured), lines 382-397, from the button of the
\* preview controls.  Image.open or remove may raise (nothing has changed
\* then), no_bg.save may raise (last_no_bg is already set); line 400 catches
\* both.  Otherwise the cutout is saved as photo_<save_session_id>_cutout.png
\* and upload_and_get_link(final_path) is called.
show_cutout ==
  /\ pc["main"] = "idle"
  /\ preview_controls
  /\ shares < MaxShares
  /\ \E outcome \in {"open_raises", "save_raises", "saved"} :
       /\ last_no_bg' = IF outcome = "open_raises" THEN last_no_bg
                        ELSE last_captured
       /\ IF outcome = "saved"
            THEN /\ Call("main", "ul_begin", "ui_qr")
                 /\ file_path' = [file_path EXCEPT !["main"] =
                       Path("final_images", save_session_id, "_cutout")]
                 /\ shares' = shares + 1
            ELSE UNCHANGED <<pc, stk, file_path, shares>>
  /\ UNCHANGED <<dmVars, upload_queue, upload_thread, live_workers, folders, rv, cred,
                 parent, fault, calls, sdk_fault, img_counter, save_session_id,
                 last_captured, last_composited, last_raw, preview_controls,
                 qr_frame, qr_url, bg_thumb_frame, thumb_buttons, accepted, started, task_done, stop_calls,
                 stops_returned, accepted_at_stop>>

\* remove_background(self.last_captured), lines 405-409, from the button of
\* the preview controls.  Image.open or remove may raise (nothing has changed
\* then); otherwise last_no_bg is the cutout of the capture and
\* show_background_thumbnails, lines 416-450, replaces the selector by one
\* whose buttons hold that cutout.  Image.open of a background in the loop
\* at line 443 may raise: the selector then has the buttons made before, if
\* any.  Line 412 catches both.
remove_background ==
  /\ pc["main"] = "idle"
  /\ preview_controls
  /\ \E outcome \in {"open_raises", "no_buttons", "shown"} :
       IF outcome = "open_raises"
         THEN UNCHANGED <<last_no_bg, bg_thumb_frame, thumb_buttons>>
         ELSE /\ last_no_bg' = last_captured
              /\ bg_thumb_frame' = last_captured
              /\ thumb_buttons' = (outcome = "shown")
  /\ UNCHANGED <<dmVars, upload_queue, upload_thread, live_workers, folders,
                 thrVars, img_counter, save_session_id, last_captured,
                 last_composited, last_raw, preview_controls, qr_frame,
                 qr_url, histVars>>

\* on_bg_click(bg_path), lines 435-440, from a thumbnail button of the
\* selector: the background is composited with no_bg_img, the cutout the
\* selector was built with, and the result becomes last_composited.
\* Image.open of the background may raise; nothing has changed then.
on_bg_click ==
  /\ pc["main"] = "idle"
  /\ bg_thumb_frame # None
  /\ thumb_buttons
  /\ \E opened \in BOOLEAN :
       last_composited' = IF opened THEN bg_thumb_frame ELSE last_composited
  /\ UNCHANGED <<dmVars, upload_queue, upload_thread, live_workers, folders,
                 thrVars, img_counter, save_session_id, last_captured,
                 last_no_bg, last_raw, preview_controls, qr_frame, qr_url,
                 bg_thumb_frame, thumb_buttons, histVars>>

\* close_background_selector, lines 377-379 ("Close" of the selector): the
\* selector is destroyed and the attribute deleted.
close_background_selector ==
  /\ pc["main"] = "idle"
  /\ bg_thumb_frame # None
  /\ bg_thumb_frame' = None
  /\ thumb_buttons' = FALSE
  /\ UNCHANGED <<dmVars, upload_queue, upload_thread, live_workers, folders,
                 thrVars, img_counter, save_session_id, last_captured,
                 last_no_bg, last_composited, last_raw, preview_controls,
                 qr_frame, qr_url, histVars>>

\* save_final_image, lines 467-475: the capture that image_to_save was made
\* from (an image is modelled by the capture it derives from).
ImageToSave == IF last_composited # None THEN last_composited
               ELSE IF last_no_bg # None THEN last_no_bg
               ELSE last_raw

\* save_final_image, lines 467-478: the suffix of the image chosen, "" when
\* there is no image to save.
FinalSuffix == IF last_composited # None THEN "_composited"
               ELSE IF last_no_bg # None THEN "_cutout"
               ELSE IF last_raw # None THEN "_raw"
               ELSE ""

\* save_final_image, lines 461-487, from the button of the preview controls:
\* the image chosen is saved as photo_<save_session_id><suffix>.png (an
\* exception of save is caught at line 491) and upload_and_get_link is
\* called.
save_final_image ==
  /\ pc["main"] = "idle"
  /\ preview_controls
  /\ shares < MaxShares
  /\ FinalSuffix # ""
  /\ \E saved \in BOOLEAN :
       IF saved
         THEN /\ Call("main", "ul_begin", "ui_qr")
              /\ file_path' = [file_path EXCEPT !["main"] =
                    Path("final_images", save_session_id, FinalSuffix)]
              /\ shares' = shares + 1
         ELSE UNCHANGED <<pc, stk, file_path, shares>>
  /\ UNCHANGED <<dmVars, upload_queue, upload_thread, live_workers, folders, rv, cred,
                 parent, fault, calls, sdk_fault, uiVars, accepted, started,
                 task_done, stop_calls, stops_returned, accepted_at_stop>>

\* display_qr_code(url), lines 496-501: whatever url is, a new qr_frame is
\* created and placed; qrcode.make(url) then encodes str(url).  The result
\* is <<qr_frame, qr_url>>.
display_qr_code(url) == <<TRUE, url>>

\* show_cutout line 398 and save_final_image line 489:
\* self.display_qr_code(share_url), with the value upload_and_get_link
\* returned; the handler ends.
ui_qr ==
  /\ pc["main"] = "ui_qr"
  /\ qr_frame' = display_qr_code(rv["main"])[1]
  /\ qr_url' = display_qr_code(rv["main"])[2]
  /\ Goto("main", "idle")
  /\ file_path' = [file_path EXCEPT !["main"] = NonePath]
  /\ parent' = [parent EXCEPT !["main"] = None]
  /\ fault' = [fault EXCEPT !["main"] = "none"]
  /\ calls' = [calls EXCEPT !["main"] = {}]
  /\ rv' = [rv EXCEPT !["main"] = None]
  /\ UNCHANGED <<dmVars, upload_queue, upload_thread, live_workers, folders, stk, cred,
                 sdk_fault, img_counter, save_session_id, last_captured,
                 last_no_bg, last_composited, last_raw, preview_controls,
                 bg_thumb_frame, thumb_buttons, histVars>>

\* hide_preview, lines 369-374 ("Retake Photo"): the preview controls are
\* hidden and the qr_frame, if any, is destroyed.
hide_preview ==
  /\ pc["main"] = "idle"
  /\ preview_controls
  /\ preview_controls' = FALSE
  /\ qr_frame' = FALSE
  /\ qr_url' = None
  /\ UNCHANGED <<dmVars, upload_queue, upload_thread, live_workers, folders, thrVars,
                 img_counter, save_session_id, last_captured, last_no_bg,
                 last_composited, last_raw, bg_thumb_frame, thumb_buttons,
                 histVars>>

\* ----------------------------------------------------------- specification
\* The state in which `PhotoBoothPython(root)` starts AsyncUploader(): class
\* attributes as declared at lines 17-19, nothing queued, no thread.
Init ==
  /\ _drive = None /\ _authenticated = FALSE /\ handles = 0
  /\ expired = FALSE /\ last_init = "none"
  /\ upload_queue = <<>> /\ upload_thread = None /\ live_workers = 0
  /\ folders \in {0, 1}
  /\ pc = [t \in Threads |-> IF t = "main" THEN "dm_init" ELSE "unstarted"]
  /\ stk = [t \in Threads |-> <<>>]
  /\ rv = [t \in Threads |-> None]
  /\ cred = [t \in Threads |-> "unset"]
  /\ file_path = [t \in Threads |-> NonePath]
  /\ parent = [t \in Threads |-> None]
  /\ fault = [t \in Threads |-> "none"]
  /\ calls = [t \in Threads |-> {}]
  /\ sdk_fault = [t \in Threads |-> {}]
  /\ img_counter = 0 /\ save_session_id = 1
  /\ last_captured = None /\ last_no_bg = None /\ last_composited = None
  /\ last_raw = None /\ preview_controls = FALSE
  /\ qr_frame = FALSE /\ qr_url = None
  /\ bg_thumb_frame = None /\ thumb_buttons = FALSE
  /\ shares = 0 /\ accepted = <<>> /\ started = <<>> /\ task_done = 0
  /\ stop_calls = 0 /\ stops_returned = 0 /\ accepted_at_stop = None

Next ==
  \/ dm_init
  \/ au_start
  \/ \E t \in Threads : _initialize_drive(t)
  \/ \E t \in Threads : get_drive(t)
  \/ \E t \in Threads : _get_or_create_folder(t)
  \/ upload_and_get_link
  \/ _upload_file
  \/ _upload_worker
  \/ queue_upload
  \/ stop
  \/ take_photo
  \/ tp_finish
  \/ show_cutout
  \/ save_final_image
  \/ ui_qr
  \/ hide_preview

Spec == Init /\ [][Next]_vars

\* The steps of the worker thread.
WorkerNext ==
  \/ _upload_worker
  \/ _upload_file
  \/ get_drive("worker")
  \/ _initialize_drive("worker")
  \/ _get_or_create_folder("worker")

\* on_close, lines 517-520, once stop() at line 516 has returned:
\* root.destroy() ends root.mainloop() (line 525), the script ends and the
\* interpreter exits.  The worker was created with daemon=True (line 89): if
\* it is still alive it is terminated where it stands.
on_close_exit ==
  /\ pc["main"] = "idle"
  /\ stops_returned > 0
  /\ pc' = [pc EXCEPT !["main"] = "exited",
                      !["worker"] = IF WorkerAlive THEN "killed" ELSE @]
  /\ live_workers' = 0
  /\ UNCHANGED <<dmVars, upload_queue, upload_thread, folders, stk, rv, cred,
                 file_path, parent, fault, calls, sdk_fault, uiVars, histVars>>

\* The program up to the exit of the process.  The worker thread is an
\* operating-system thread of its own: it is not starved by the main thread,
\* and every call it makes returns.
NextExit == Next \/ on_close_exit
SpecExit == Init /\ [][NextExit]_vars /\ WF_vars(WorkerNext)

\* The program with the background selector of the preview ("Remove
\* Background", its thumbnails and its "Close").
NextSelector ==
  \/ Next
  \/ remove_background
  \/ on_bg_click
  \/ close_background_selector
SpecSelector == Init /\ [][NextSelector]_vars

\* The program with further start_upload_worker calls on its uploader.
NextRestart == Next \/ start_upload_worker
SpecRestart == Init /\ [][NextRestart]_vars

\* The program over a time long enough for an access token to expire.
NextExpiry == Next \/ token_expires
SpecExpiry == Init /\ [][NextExpiry]_vars

TypeOK ==
  /\ _drive \in {None} \cup (1..handles)
  /\ _authenticated \in BOOLEAN
  /\ folders \in Nat
  /\ \A t \in Threads : rv[t] \in Int /\ parent[t] \in Int
  /\ qr_frame \in BOOLEAN

\* ================================================================= claims
Range(q) == {q[i] : i \in DOMAIN q}
IsPrefix(p, q) == Len(p) <= Len(q) /\ \A i \in 1..Len(p) : p[i] = q[i]

\* The worker is inside _upload_file / the main thread is inside
\* upload_and_get_link (the call returns to w_done / ui_qr).
InUploadFile == "w_done" \in Range(stk["worker"])
InUploadAndGetLink == "ui_qr" \in Range(stk["main"])

\* ---- C1
\* C1: at most one upload is in flight: _upload_file on the worker and
\* upload_and_get_link on the main thread never overlap, and so the service
\* never ends up with two 'PhotoBooth' folders created by two overlapping
\* lookup-then-create executions.
C1_OneUploadInFlight ==
  /\ ~(InUploadFile /\ InUploadAndGetLink)
  /\ folders <= 1

\* ---- C2
\* C2: the paths for which the worker has started an upload attempt are, in
\* order, a prefix of the paths queue_upload has accepted.
C2_FifoOrder == IsPrefix(started, accepted)

\* Two accepted paths have both been handed to _upload_file.
C2_Witness == Len(started) = 2 /\ Len(accepted) = 2

\* ---- C3
\* C3 as stated: once a call to stop() has returned, the worker starts no
\* further upload attempt.
C3_NoUploadAfterStopReturns ==
  [][stops_returned > 0 => started' = started]_vars

\* C3 as amended: once a call to stop() has returned, every path the worker
\* has started an upload attempt for was accepted by queue_upload before the
\* first stop() put its pill; a path enqueued after that call is never
\* attempted.
C3_NoUploadOfPathsQueuedAfterStop ==
  stops_returned > 0 =>
    \A i \in 1..Len(started) :
      \E j \in 1..accepted_at_stop : accepted[j] = started[i]

\* stop() has returned twice, the worker has exited after an upload attempt,
\* and a path accepted after the first stop() is still on the queue.
C3_Witness ==
  /\ stops_returned = 2
  /\ pc["worker"] = "exited"
  /\ Len(started) >= 1
  /\ Len(accepted) > accepted_at_stop
  /\ \E i \in 1..Len(upload_queue) : upload_queue[i] # NonePath

\* ---- C4
\* C4: a queue_upload call that finds the session not connected leaves the
\* upload queue as it was; and as long as no authorization has succeeded the
\* queue holds no real path and the worker has started no upload attempt.
C4_DisconnectedNeverEnqueues ==
  /\ [](handles = 0 =>
          /\ \A i \in 1..Len(upload_queue) : upload_queue[i] = NonePath
          /\ started = <<>>)
  /\ [][(/\ pc["main"] \in {"qu_auth", "qu_drive"}
         /\ pc'["main"] = "tp_finish"
         /\ ~(_authenticated /\ _drive # None))
        => upload_queue' = upload_queue]_vars

\* queue_upload has just returned without queuing the photo it was given,
\* the session being not connected.
C4_Witness ==
  /\ pc["main"] = "tp_finish"
  /\ ~(_authenticated /\ _drive # None)
  /\ img_counter = 1
  /\ accepted = <<>> /\ upload_queue = <<>>

\* ---- C5
\* C5: when upload_and_get_link returns, a failure at any of its steps
\* (handle, local file, folder resolution, upload, permission, link) has
\* made it return None; in particular it returns no share URL when the
\* folder lookup or creation raised.
C5_AnyFailureYieldsAbsence ==
  (pc["main"] = "ui_qr" /\ fault["main"] # "none") => rv["main"] = None

\* ---- C6
\* C6: when os.path.exists(file_path) is false in upload_and_get_link, the
\* operation issues no remote call (list, folder creation, upload,
\* permission) and returns None.
C6_MissingFileNoRemoteCall ==
  fault["main"] = "file" =>
    /\ calls["main"] = {}
    /\ InUploadAndGetLink \/ (pc["main"] = "ui_qr" /\ rv["main"] = None)

\* upload_and_get_link has returned after finding the local file missing.
C6_Witness == pc["main"] = "ui_qr" /\ fault["main"] = "file"

\* ---- C7
\* C7: when the upload of save_final_image or show_cutout failed
\* (upload_and_get_link returned None), no QR frame is created or shown for
\* it: no qr_frame exists whose code was made from None.
C7_NoQrOnFailedUpload == ~(qr_frame /\ qr_url = None)

\* ---- C8
\* C8: at most one thread is inside _initialize_drive at any time, none is
\* once a handle is established, and from then on _drive and _authenticated
\* keep their values and every get_drive call returns that handle.
C8_OneAuthFlowOneHandle ==
  /\ [](/\ Cardinality({t \in Threads : InInit(t)}) <= 1
        /\ (_authenticated /\ _drive # None) => \A t \in Threads : ~InInit(t))
  /\ [][(_authenticated /\ _drive # None) =>
          /\ _authenticated' /\ _drive' = _drive
          /\ \A t \in Threads :
               (pc[t] = "gd_ret" /\ pc'[t] # "gd_ret") => rv'[t] = _drive]_vars

\* With a handle established, both threads are about to return from
\* get_drive at the same time.
C8_Witness ==
  /\ _authenticated /\ _drive # None
  /\ pc["main"] = "gd_ret" /\ pc["worker"] = "gd_ret"

\* ---- C9
\* The statement thread t executes next reads or writes _drive or
\* _authenticated.
TouchesSession(t) ==
  pc[t] \in {"dm_init", "gd_auth", "gd_drive", "gd_ret", "qu_auth", "qu_drive",
             "in_build", "in_setauth", "in_fail65", "in_fail66"}

\* C9 as stated: once the uploader is constructed, no statement executed on
\* the main thread (queue_upload, save_final_image, show_cutout,
\* upload_and_get_link) reads or writes _drive or _authenticated.
C9_MainNeverTouchesSession ==
  (pc["main"] # "dm_init" /\ "au_start" \notin Range(stk["main"]))
    => ~TouchesSession("main")

\* C9 as amended: _drive and _authenticated are written by the main thread
\* only (in the constructor and in get_drive under upload_and_get_link); the
\* worker thread never runs _initialize_drive and only reads them.
C9_OnlyMainWritesSession ==
  /\ [](~InInit("worker"))
  /\ [][(_drive' # _drive \/ _authenticated' # _authenticated)
        => pc'["worker"] = pc["worker"]]_vars

\* The main thread is about to set _authenticated inside upload_and_get_link
\* while the worker thread is running.
C9_Witness ==
  /\ pc["main"] = "in_setauth" /\ InUploadAndGetLink
  /\ WorkerAlive

\* ---- C10
\* The SDK calls of the current or last _initialize_drive of t that raised,
\* the load of the credentials file aside.
FatalSdkFaults(t) == sdk_fault[t] \ {"load"}

\* t has just come back from _initialize_drive / from get_drive.
AfterInit(t) == pc[t] \in {"gd_ret", "au_start"}
AfterGetDrive(t) == pc[t] \in {"gf_got", "ul_got", "uf_got"}

\* C10 as stated: after an initialization in which any SDK call raised (the
\* load of the credentials included), the session is not connected and
\* get_drive returns None.
C10_AnySdkFailureDisconnects ==
  \A t \in Threads :
    /\ (AfterInit(t) /\ sdk_fault[t] # {}) => ~(_authenticated /\ _drive # None)
    /\ (AfterGetDrive(t) /\ sdk_fault[t] # {}) => rv[t] = None

\* C10 as amended: after an initialization in which GoogleAuth(), the
\* authorization call, SaveCredentialsFile or GoogleDrive() raised, the
\* session is not connected and get_drive returns None; a failure of the
\* load alone does not decide the outcome.
C10_FatalSdkFailureDisconnects ==
  \A t \in Threads :
    /\ (AfterInit(t) /\ FatalSdkFaults(t) # {}) => ~(_authenticated /\ _drive # None)
    /\ (AfterGetDrive(t) /\ FatalSdkFaults(t) # {}) => rv[t] = None

\* get_drive has returned None to upload_and_get_link after an
\* initialization whose SaveCredentialsFile raised.
C10_Witness ==
  /\ pc["main"] = "ul_got" /\ rv["main"] = None
  /\ "SaveCredentialsFile" \in sdk_fault["main"]

\* ---- C11
\* C11: get_drive re-authenticates whenever the handle is absent or expired:
\* a get_drive call goes from its test (line 70) straight to `return
\* self._drive` (line 72), without _initialize_drive, only when a handle is
\* held whose access token has not expired.
C11_ReauthWhenAbsentOrExpired ==
  [][\A t \in Threads :
       (pc[t] = "gd_drive" /\ pc'[t] = "gd_ret") => (_drive # None /\ ~expired)]_vars

\* ---- C12
\* C12: is_connected() is true exactly when the initialization that ended
\* last succeeded and a handle is held; and _authenticated implies that
\* _drive is not None.
C12_ConnectedIffLastInitSucceeded ==
  /\ (_authenticated /\ _drive # None) <=> (last_init = "ok" /\ _drive # None)
  /\ _authenticated => _drive # None

\* An initialization has failed after an earlier one, inside
\* upload_and_get_link, with the worker thread running.
C12_Witness ==
  /\ last_init = "failed" /\ pc["main"] = "gd_ret"
  /\ InUploadAndGetLink /\ WorkerAlive

\* ---- C13
\* C13: when the service already has a 'PhotoBooth' folder at the time of
\* the lookup, _get_or_create_folder issues no folder creation, leaves the
\* number of folders as it is and (unless the lookup itself raised) returns
\* the id of the first folder reported, the same on every call.
C13_ExistingFolderReused ==
  [][\A t \in Threads :
       (pc[t] = "gf_list" /\ pc'[t] # "gf_list" /\ folders > 0) =>
         /\ pc'[t] # "gf_create"
         /\ folders' = folders
         /\ "mkdir" \notin calls'[t]
         /\ rv'[t] = 1 \/ fault'[t] = "folder"]_vars

\* The second _upload_file of the worker has resolved the existing folder
\* with a lookup alone, as the one before it.
C13_Witness ==
  /\ folders = 1 /\ task_done = 1
  /\ pc["worker"] = "uf_upload" /\ rv["worker"] = 1
  /\ calls["worker"] = {"list"}

\* ---- C14
\* The number of times path p was handed to _upload_file.
Attempts(p) == Cardinality({i \in 1..Len(started) : started[i] = p})

\* C14 as stated: every path accepted by queue_upload is dequeued exactly
\* once and gets exactly one upload attempt (so, by the time the worker has
\* left its loop, each accepted path has had its attempt), task_done for it
\* is called before the next dequeue, and task_done calls never outnumber
\* the dequeued paths.
C14_EveryAcceptedPathAttemptedOnce ==
  /\ \A i \in 1..Len(accepted) : Attempts(accepted[i]) <= 1
  /\ pc["worker"] = "exited" =>
       \A i \in 1..Len(accepted) : Attempts(accepted[i]) = 1
  /\ pc["worker"] = "w_get" => task_done = Len(started)
  /\ task_done <= Len(started)

\* C14 as amended: every accepted path is dequeued at most once and gets at
\* most one upload attempt; by the time the worker has left its loop, the
\* paths accepted before the first stop() have had exactly one attempt each
\* and those accepted after it none; task_done for a path is called before
\* the next dequeue, and task_done calls never outnumber the dequeued paths.
C14_AcceptedBeforeStopAttemptedOnce ==
  /\ \A i \in 1..Len(accepted) : Attempts(accepted[i]) <= 1
  /\ \A i \in 1..Len(started) : started[i] \in Range(accepted)
  /\ pc["worker"] = "exited" =>
       \A i \in 1..Len(accepted) :
         Attempts(accepted[i]) = IF i <= accepted_at_stop THEN 1 ELSE 0
  /\ pc["worker"] \in {"w_get", "exited"} => task_done = Len(started)
  /\ task_done <= Len(started) /\ Len(started) <= task_done + 1

\* The worker has left its loop after one attempt for the path accepted
\* before stop(), and a path accepted afterwards has had none.
C14_Witness ==
  /\ pc["worker"] = "exited"
  /\ accepted_at_stop = 1 /\ Len(accepted) = 2
  /\ Len(started) = 1 /\ task_done = 1

\* ---- C16
\* C16: when _upload_file has returned (False included), the worker does not
\* put the path back: the queue is left as it is and the worker goes back to
\* the get of its loop, alive; no path is attempted twice, and a path that
\* has been attempted is not on the queue.
C16_FailedUploadDropped ==
  /\ [](/\ \A i \in 1..Len(started) :
             /\ Attempts(started[i]) = 1
             /\ started[i] \notin Range(upload_queue)
        /\ pc["worker"] = "w_done" => WorkerAlive)
  /\ [][(pc["worker"] = "w_done" /\ pc'["worker"] # "w_done") =>
          /\ pc'["worker"] = "w_get"
          /\ upload_queue' = upload_queue]_vars

\* An upload attempt of the worker has failed on a missing file and has
\* returned False, while a path enqueued after it waits on the queue.
C16_Witness ==
  /\ pc["worker"] = "w_done" /\ rv["worker"] = 0
  /\ fault["worker"] = "file"
  /\ upload_queue # <<>> /\ Head(upload_queue) # NonePath

\* ---- C17
\* C17: the worker's uploads never issue the permission grant; in
\* upload_and_get_link the grant comes after the file upload and before the
\* link is read, and a share URL is returned only when the upload and the
\* grant of that call were both made and neither failed.
C17_PermissionOnlyWhenSharing ==
  /\ "perm" \notin calls["worker"]
  /\ "perm" \in calls["main"] => "upload" \in calls["main"]
  /\ pc["main"] = "ul_perm" =>
       ("upload" \in calls["main"] /\ "perm" \notin calls["main"])
  /\ pc["main"] = "ul_link" => {"upload", "perm"} \subseteq calls["main"]
  /\ (pc["main"] = "ui_qr" /\ rv["main"] # None) =>
       /\ {"upload", "perm"} \subseteq calls["main"]
       /\ fault["main"] \notin {"upload", "perm"}

\* upload_and_get_link has returned a share URL.
C17_Witness ==
  /\ pc["main"] = "ui_qr" /\ rv["main"] = ShareUrl
  /\ fault["main"] = "none"

\* ---- C15
\* C15: once stop() has put the sentinel, the worker eventually leaves its
\* loop (every call it makes returning); when it has, every path accepted
\* ahead of the sentinel has had its upload attempt; and the worker is never
\* terminated in the middle of an upload attempt.
C15_WorkerExitsAfterStop ==
  /\ (stop_calls > 0) ~> (pc["worker"] = "exited")
  /\ [](pc["worker"] = "exited" =>
          \A i \in 1..accepted_at_stop : accepted[i] \in Range(started))
  /\ [][(pc'["worker"] = "killed" /\ pc["worker"] # "killed") =>
          ~InUploadFile]_vars

\* ---- C18
\* C18: at most one thread running _upload_worker is alive at any time, and
\* a thread is started on _upload_worker only when no worker thread is
\* alive, whatever the sequence of start_upload_worker calls.
C18_AtMostOneWorker ==
  /\ [](live_workers <= 1)
  /\ [][live_workers' > live_workers => ~WorkerAlive]_vars

\* The first worker has taken the sentinel of the only stop() and ended, and
\* a worker started by a later start_upload_worker is the one alive.
C18_Witness ==
  /\ stop_calls = 1
  /\ NonePath \notin Range(upload_queue)
  /\ live_workers = 1
  /\ pc["worker"] = "w_get"

\* ---- C19
\* The image of the current capture that save_final_image is to prefer:
\* composited over cutout over raw.
SuffixOfCurrentCapture ==
  IF last_composited = last_captured THEN "_composited"
  ELSE IF last_no_bg = last_captured THEN "_cutout"
  ELSE "_raw"

\* C19: whenever save_final_image saves an image and hands it to the upload,
\* the image derives from the most recent capture, and it is the composited
\* image of that capture if there is one, else its cutout, else the raw
\* capture.  (The step of save_final_image is the one that leaves the idle
\* main thread for upload_and_get_link with the path of the image chosen,
\* last_no_bg untouched.)
C19_SavesMostRecentCapture ==
  [][(/\ pc["main"] = "idle"
      /\ pc'["main"] = "ul_begin"
      /\ last_no_bg' = last_no_bg
      /\ file_path'["main"] = Path("final_images", save_session_id, FinalSuffix))
     => /\ ImageToSave = last_captured
        /\ FinalSuffix = SuffixOfCurrentCapture]_vars

\* ---- C20
\* The capture that the image in the file being shared was made from, by the
\* stage its suffix names.
SavedSource ==
  IF file_path["main"].suffix = "_composited" THEN last_composited
  ELSE IF file_path["main"].suffix = "_cutout" THEN last_no_bg
  ELSE last_raw

\* C20: the capture counter never decreases and moves by exactly one on a
\* capture, whose raw file takes the value before the move as its number, so
\* that every raw capture has a number larger than the one before; and the
\* number in the name of a derived file (in final_images) is the number in
\* the name of the raw capture it was derived from.
C20_DerivedNameMatchesRaw ==
  /\ [][/\ img_counter' \in {img_counter, img_counter + 1}
        /\ last_captured' # last_captured =>
             /\ last_captured' = img_counter
             /\ img_counter' = img_counter + 1
             /\ last_captured' > last_captured]_vars
  /\ [](file_path["main"].dir = "final_images" =>
          file_path["main"].n = SavedSource)

====
